---- MODULE Spec2Model ----
(***************************************************************************)
(* Meshtastic -> Snowflake streamer.                                       *)
(*                                                                         *)
(* The model covers MeshtasticSnowflakeStreamer (the main thread with      *)
(* start/stop and the signal handler, the producer callback, the batching  *)
(* worker thread) and SnowpipeStreamingClient (token handling, host        *)
(* discovery, open_channel, insert_rows/append_rows, close_channel,        *)
(* get_channel_status, wait_for_commit), MeshtasticReceiver._on_receive    *)
(* with its parsers, and _prepare_row with convert_value.                  *)
(*                                                                         *)
(* Time is counted in ticks of the worker's queue poll timeout (0.5 s).    *)
(* Readings are numbered 1, 2, ... in the order of the producer's put().   *)
(* A continuation token or bearer token is a positive number; 0 is None.   *)
(***************************************************************************)
EXTENDS Integers, Sequences, FiniteSets, TLC

\* ------------------------------------------------------------- bounds
\* Readings the device delivers in one run.
MaxReadings == 3
\* config['batch_size'] (default 10) and config['flush_interval_seconds']
\* (default 5) of the modelled run.
batch_size == 2
flush_interval == 1

\* ---------------------------------------------------- program constants
\* queue.get(timeout=0.5): two polls per second.
TicksPerSecond == 2
\* worker_thread.join(timeout=5)
JoinTimeoutSeconds == 5

JoinTimeout == JoinTimeoutSeconds * TicksPerSecond
FlushTicks == flush_interval * TicksPerSecond

None == 0
NoReq == [sent |-> FALSE, continuationToken |-> 0, offsetToken |-> 0, rows |-> <<>>]

\* self.token_expiry = time.time() + 3000
TokenLifetime == 3000

\* ---------------------------------------- bounds of a client session
\* The clock of a session that calls the client directly moves in steps
\* of ClockStep seconds, MaxClock times at most.
ClockStep == 1500
MaxClock == 2
\* Calls of client methods in such a session.
MaxCalls == 3

\* ------------------------------------------ packets of the receiver
\* decoded['portnum'] is a number or a name. num is -1 when it is no
\* number; name lists the words of str(portnum) between underscores and is
\* empty for a number and for the default ''.
PortNumbers == {0, 1, 3, 4, 67, 70}
PortNames == {<<>>, <<"POSITION", "APP">>, <<"TEXT", "MESSAGE", "APP">>,
              <<"TELEMETRY", "APP">>, <<"NODEINFO", "APP">>,
              <<"ROUTING", "APP">>}
Portnums == {[num |-> n, name |-> <<>>] : n \in PortNumbers} \cup
            {[num |-> -1, name |-> w] : w \in PortNames}
PayloadKeys == {"position", "text", "telemetry", "user"}

\* A number of a payload is a fraction <<numerator, denominator>>; Nil is a
\* key that is absent or holds None.
Nil == <<>>
\* The scale of latitudeI and longitudeI: lat = latitudeI / 1e7.
CoordinateScale == 10000000
\* decoded['position']: the floating and the fixed-point coordinates.
PositionPayloads ==
    [latitude : {Nil, <<0, 1>>, <<402915328, CoordinateScale>>},
     latitudeI : {Nil, <<0, 1>>, <<402915328, 1>>, <<-745275392, 1>>},
     longitude : {Nil, <<-745275392, CoordinateScale>>},
     longitudeI : {Nil, <<0, 1>>, <<-745275392, 1>>}]
NoPosition == [latitude |-> Nil, latitudeI |-> Nil, longitude |-> Nil,
               longitudeI |-> Nil]
\* environmentMetrics['temperature'] in Celsius: absent, 0, -5.5, 22.5.
Temperatures == {Nil, <<0, 1>>, <<-11, 2>>, <<45, 2>>}
\* packet['from']: absent (None) or a node number.
Froms == {None, 5}

\* A packet: from is packet.get('from'); decoded tells whether
\* packet.get('decoded', {}) is a dict ("dict") or a value without get()
\* ("other"); portnum and keys are the port and the payload keys of
\* decoded; position is decoded['position'] and temperature the one of
\* decoded['telemetry']['environmentMetrics'], both without a value when
\* their key is absent.
Packet(from, decoded, portnum, keys, position, temperature) ==
    [from |-> from, decoded |-> decoded, portnum |-> portnum, keys |-> keys,
     position |-> position, temperature |-> temperature]

\* The packets of every port and every set of payload keys, the position
\* packets with every position payload, the telemetry packets with every
\* temperature, and a packet whose decoded is no dict.
Packets ==
    {Packet(f, "dict", pn, ks, NoPosition, Nil) :
        f \in Froms, pn \in Portnums, ks \in SUBSET PayloadKeys}
    \cup
    {Packet(5, "dict", pn, ks, pos, Nil) :
        pn \in {p \in Portnums : p.num \in {3, 67} \/ p.name \in
                                    {<<>>, <<"POSITION", "APP">>}},
        ks \in {{"position"}, {"position", "telemetry"}},
        pos \in PositionPayloads}
    \cup
    {Packet(5, "dict", pn, ks, NoPosition, t) :
        pn \in {p \in Portnums : p.num \in {67, 1} \/ p.name \in
                                    {<<>>, <<"TELEMETRY", "APP">>}},
        ks \in {{"telemetry"}, {"telemetry", "user"}},
        t \in Temperatures}
    \cup
    {Packet(5, "other", [num |-> -1, name |-> <<>>], {}, NoPosition, Nil)}
\* The packet {}.
NoPacket == Packet(None, "dict", [num |-> -1, name |-> <<>>], {},
                   NoPosition, Nil)
\* No message: nothing was made of the packet.
NoReading == [received_at |-> 0, from_id |-> Nil, latitude |-> Nil,
              longitude |-> Nil, temperature |-> Nil, temperature_f |-> Nil,
              raw_packet |-> NoPacket]
NoMessage == [message |-> "none", reading |-> NoReading]
\* Calls of _on_receive with one packet.
Deliveries == 2

\* ------------------------------------------ messages of _prepare_row
\* A value is <<"number", n>>, <<"str", s>> or, for a dict of n keys,
\* <<"dict", n>>.
Numbers == {Nil, <<"number", 0>>, <<"number", 35>>}
Texts == {Nil, <<"str", "">>, <<"str", "hi">>}
\* A message as _prepare_row reads it with message.get: a field is Nil when
\* its key is absent or holds None. extra_field is a key the row does not
\* have.
Messages ==
    [packet_type : {<<"str", "position">>, <<"str", "telemetry">>,
                    <<"str", "text">>},
     latitude : Numbers, battery_level : Numbers, gps_timestamp : Numbers,
     telemetry_time : Numbers, text : Texts,
     raw_packet : {Nil, <<"dict", 0>>, <<"dict", 1>>},
     extra_field : {Nil, <<"str", "should_be_removed">>}]
NoRowMessage ==
    [packet_type |-> <<"str", "position">>, latitude |-> Nil, battery_level |-> Nil,
     gps_timestamp |-> Nil, telemetry_time |-> Nil, text |-> Nil,
     raw_packet |-> Nil, extra_field |-> Nil]
\* No row: _prepare_row has not been called.
NoRow == [k \in {} |-> Nil]

\* ------------------------------------------- payloads of convert_value
\* A payload is a graph of values: node 1 is the value passed in, and a
\* node holds its type ("scalar", "bytes", "dict", "list", or "object" for
\* a value with a __dict__) and, for a dict or a list, the nodes of its
\* elements. A graph with a cycle is a dict or list that holds itself.
\* Nesting of the payloads.
MaxNest == 12
\* Lengths of the cycles.
MaxCycle == 2
ContainerTypes == {"dict", "list"}
LeafTypes == {"scalar", "bytes", "object"}
Leaf(type) == [type |-> type, kids |-> <<>>]
\* n containers nested in each other around a leaf; with a sibling every
\* container holds a bytes value beside the next container.
Chain(n, kind, leaf, sibling) ==
    [i \in 1..(n + 2) |->
        IF i <= n
        THEN [type |-> kind,
              kids |-> IF sibling THEN <<n + 2, i + 1>> ELSE <<i + 1>>]
        ELSE IF i = n + 1 THEN Leaf(leaf) ELSE Leaf("bytes")]
\* k containers that hold each other in a ring.
Cycle(k, kind, sibling) ==
    [i \in 1..(k + 1) |->
        IF i <= k
        THEN [type |-> kind,
              kids |-> IF sibling THEN <<k + 1, (i % k) + 1>>
                       ELSE <<(i % k) + 1>>]
        ELSE Leaf("bytes")]
Payloads ==
    {Chain(n, kind, leaf, sibling) :
        n \in 0..MaxNest, kind \in ContainerTypes, leaf \in LeafTypes,
        sibling \in BOOLEAN}
    \cup
    {Cycle(k, kind, sibling) :
        k \in 1..MaxCycle, kind \in ContainerTypes, sibling \in BOOLEAN}
NoPayload == Chain(0, "dict", "scalar", FALSE)
\* A sanitized value: a scalar as it was, the hex string of bytes, the
\* str() of a value, or a dict or list of sanitized values; of is the
\* node it was made of.
Sanitized(type, of, items) == [type |-> type, of |-> of, items |-> items]
\* convert_value has not been called.
NoValue == [by |-> "none", value |-> Sanitized("scalar", 0, <<>>)]

\* ------------------------------------------ configurations of the client
\* The keys of the configuration file that SnowflakeJWTAuth.__init__ reads:
\* account and user are there or not; pat and private_key_file are absent,
\* empty or hold a value.
Configs == [account : BOOLEAN, user : BOOLEAN,
            pat : {"absent", "", "pat_token"},
            private_key_file : {"absent", "", "rsa_key.p8"}]
\* The configuration of a client that authenticates with the method.
ConfigOf(method) ==
    [account |-> TRUE, user |-> TRUE,
     pat |-> IF method = "pat" THEN "pat_token" ELSE "absent",
     private_key_file |-> IF method = "jwt" THEN "rsa_key.p8" ELSE "absent"]

VARIABLES
    \* MeshtasticSnowflakeStreamer
    running,          \* self.running
    shutdown,         \* self._shutdown_event.is_set()
    queue,            \* self.message_queue
    sstats,           \* self.stats
    receiver,         \* self.meshtastic_receiver: "none", "open", "closed"
    \* main thread
    mpc,              \* position of the main thread
    join_elapsed,     \* ticks since worker_thread.join began
    close_calls,      \* calls of streaming_client.close_channel
    \* producer callback thread
    ppc,              \* "idle", or "count" between put() and the counter
    produced,         \* readings put on the queue so far
    \* worker thread
    wpc,              \* position of the worker thread
    batch,            \* local batch
    elapsed,          \* time.time() - last_flush, in ticks, capped
    log,              \* batches passed to streaming_client.insert_rows
    \* SnowpipeStreamingClient
    auth_method,      \* jwt_auth.auth_method
    ingest_host,      \* self.ingest_host: 0 is None
    continuation_token,
    offset_token,
    scoped_token,
    token_expiry,     \* self.token_expiry, in seconds: 0 is None
    cstats,           \* self.stats
    inflight,         \* the append request on the wire
    ncalls,           \* append_rows calls that returned or raised
    outcome,          \* how the last append_rows call ended
    nopen,            \* open_channel calls that returned or raised
    raised,           \* exception class of the last client call, "" if none
    \* environment
    srv_seq,          \* continuation tokens the server has issued
    auth_seq,         \* bearer tokens the Auth Provider has issued
    host_queries,     \* GET /v2/streaming/hostname requests received
    open_response,    \* the answer to the last open request of a session
                      \* that calls the client directly
    req,              \* the last request sent: kind, bearer token, time
    now,              \* time.time() of a session that calls the client
                      \* directly, in seconds
    calls,            \* client methods such a session has called
    at_signal,        \* readings queued or batched at the first signal
    wait,             \* the wait_for_commit call of such a session
    \* MeshtasticReceiver
    packet,           \* the packet passed to _on_receive
    given,            \* the packet as the device delivered it
    message,          \* packet_type of the message made of it, or "none"
    reading,          \* the other fields of that message
    previous,         \* the message of the call before, same packet
    config,           \* the configuration the client is constructed with
    client,           \* "created", "none" before SnowpipeStreamingClient()
                      \* is called, or the exception it raised
    payload,          \* the value passed to convert_value
    sanitized,        \* what convert_value returned, and to whom
    row_message,      \* the message passed to _prepare_row
    row,              \* the row _prepare_row returned
    received,         \* calls of _on_receive with the packet
    delivered         \* messages appended to the receiver's message_queue
                      \* and passed to on_message_callback

vars == <<running, shutdown, queue, sstats, receiver, mpc, join_elapsed,
          close_calls, ppc, produced, wpc, batch, elapsed, log, auth_method,
          ingest_host, continuation_token, offset_token, scoped_token,
          token_expiry, cstats, inflight, ncalls, outcome, nopen, raised,
          srv_seq, auth_seq, host_queries, open_response, req, now,
          calls, at_signal, wait, packet, given, message, reading,
          previous, received, delivered, row_message, row, payload,
          sanitized, config, client>>

streamerVars == <<running, shutdown, queue, sstats, receiver>>
mainVars == <<mpc, join_elapsed, close_calls>>
producerVars == <<ppc, produced>>
workerVars == <<wpc, batch, elapsed, log>>
tokenVars == <<scoped_token, token_expiry, auth_seq>>
sessionVars == <<ingest_host, continuation_token, offset_token>>
appendVars == <<cstats, inflight, ncalls, outcome, srv_seq>>
callVars == <<nopen, raised, host_queries, open_response, req>>
clientVars == <<sessionVars, tokenVars, appendVars, callVars>>
\* What a direct client session leaves alone besides the pipeline, and
\* what a run of the streamer leaves alone: the auth method, the packet
\* under classification, the clock and the calls of a direct session.
receiverVars == <<packet, given, message, reading, previous, received,
                  delivered>>
waitVars == <<wait>>
rowVars == <<row_message, row>>
sanitizeVars == <<payload, sanitized>>
authVars == <<config, client>>
otherVars == <<receiverVars, rowVars, sanitizeVars, authVars>>
fixedVars == <<auth_method, otherVars, waitVars, now, calls>>
\* What a direct client session or the receiver leaves alone.
pipelineVars == <<streamerVars, mainVars, producerVars, workerVars,
                  at_signal>>

Min(a, b) == IF a < b THEN a ELSE b

\* The process runs until the main thread leaves main(); the worker is a
\* daemon thread and dies with it.
alive == mpc \notin {"exited", "failed"}

\* ------------------------------------------------ SnowflakeJWTAuth
\* get_scoped_token: the PAT itself, or a token from the OAuth exchange,
\* which can fail (requests.post raises, raise_for_status raises, or the
\* response holds no access_token).
AuthOutcomes == IF auth_method = "pat" THEN {"ok"} ELSE {"ok", "auth_error"}

get_scoped_token == IF auth_method = "pat" THEN 1 ELSE auth_seq + 1

\* A token call that goes to the network whatever the method.
token_requests_always(method, n) == n + 1

\* The number of OAuth exchanges after a call of get_scoped_token that came
\* after n of them: "return self.pat" sends nothing, _get_jwt_oauth_token
\* posts to /oauth/token.
token_requests(method, n) == IF method = "pat" THEN n ELSE n + 1

\* --------------------------------------------- SnowpipeStreamingClient
\* A comparison that lets the token live one instant longer.
token_is_expired_late(t, expiry) == expiry # None /\ t > expiry

\* "self.token_expiry and time.time() >= self.token_expiry"
token_is_expired(t, expiry) == expiry # None /\ t >= expiry

\* The condition of _ensure_valid_token. expired is the value of
\* "self.token_expiry and time.time() >= self.token_expiry" at the call:
\* the token was set more than 3000 s ago.
NeedsToken(expired) == scoped_token = None \/ expired

\* _ensure_valid_token returning normally.
EnsureTokenOk(expired) ==
    IF NeedsToken(expired)
    THEN /\ scoped_token' = get_scoped_token
         /\ token_expiry' = now + TokenLifetime
         /\ auth_seq' = token_requests(auth_method, auth_seq)
    ELSE UNCHANGED tokenVars

\* _ensure_valid_token raising what get_scoped_token raised.
EnsureTokenRaises(expired) ==
    /\ NeedsToken(expired)
    /\ "auth_error" \in AuthOutcomes
    /\ UNCHANGED tokenVars

\* _get_headers: 'Authorization': f'Bearer {self.scoped_token}'
get_headers(token) == token

\* The request that leaves in this step, after _ensure_valid_token.
Request(kind) == [kind |-> kind, bearer |-> get_headers(scoped_token'),
                  at |-> now, expiry |-> token_expiry']
NoRequest == [kind |-> "none", bearer |-> None, at |-> 0, expiry |-> None]

\* The exception class a client call ends with, "" when it returns:
\*   network_error requests raises ConnectionError or Timeout
\*   http_error, unauthorized  raise_for_status raises HTTPError
\*   unreadable    response.json() raises the JSONDecodeError of requests
\*                 (a RequestException) or a ValueError or AttributeError
\*   no_hostname   raise ValueError("No hostname returned from endpoint")
\*   not_opened    raise RuntimeError("Channel not opened. ...")
\*   no_host       raise RuntimeError("Ingest host not discovered. ...")
\*   token_error   what get_scoped_token raised
ExceptionOf(resp, isRequestException) ==
    CASE resp \in {"ok", "ok_no_token"} -> ""
      [] resp = "network_error" -> "ConnectionError"
      [] resp \in {"http_error", "unauthorized"} -> "HTTPError"
      [] resp = "unreadable" ->
             IF isRequestException THEN "JSONDecodeError" ELSE "ValueError"
      [] resp = "no_hostname" -> "ValueError"
      [] resp \in {"not_opened", "no_host"} -> "RuntimeError"
      [] resp = "token_error" -> "AuthError"

\* discover_ingest_host: no look at self.ingest_host, the GET is sent on
\* every call. host is the hostname of the answer; an answer without one
\* is stored before the ValueError is raised.
discover_ingest_host(resp, host, expired) ==
    IF resp = "token_error"
    THEN /\ EnsureTokenRaises(expired)
         /\ raised' = ExceptionOf(resp, FALSE)
         /\ UNCHANGED <<ingest_host, host_queries, req>>
    ELSE /\ EnsureTokenOk(expired)
         /\ host_queries' = host_queries + 1
         /\ req' = Request("hostname")
         /\ ingest_host' = CASE resp = "ok" -> host
                             [] resp = "no_hostname" -> None
                             [] OTHER -> ingest_host
         /\ raised' = ExceptionOf(resp, TRUE)

\* Answers to the hostname request and to the open request; token_error
\* is get_scoped_token raising before the request.
HostResponses == {"ok", "token_error", "network_error", "http_error",
                  "no_hostname"}
OpenResponses == {"ok", "ok_no_token", "network_error", "http_error",
                  "unreadable", "token_error"}

\* What the server reports as last_committed_offset_token when the channel
\* is opened; -1 stands for none.
CommittedOffsets == {-1, 0, 2}

\* A client that opens every channel at offset 0.
initial_offset_zero(committed) == 0

\* A client that opens the channel one past the committed offset.
initial_offset_after(committed) == IF committed = -1 THEN 0 ELSE committed + 1

\* "self.offset_token = channel_status.get('last_committed_offset_token')"
\* and "if self.offset_token is None: self.offset_token = 0".
initial_offset(committed) == IF committed = -1 THEN 0 ELSE committed

\* open_channel. dresp and host are the answer to the hostname request
\* that open_channel sends first when self.ingest_host is not set; resp and
\* committed are the answer to the open request.
open_channel(dresp, host, resp, isRequestException, committed, expired) ==
    /\ nopen' = nopen + 1
    /\ IF ingest_host = None /\ dresp # "ok"
       THEN /\ discover_ingest_host(dresp, host, expired)
            /\ UNCHANGED <<srv_seq, continuation_token, offset_token>>
       ELSE IF resp = "token_error"
       THEN \* after a hostname request the token is the one just checked
            /\ ingest_host # None
            /\ EnsureTokenRaises(expired)
            /\ raised' = ExceptionOf(resp, FALSE)
            /\ UNCHANGED <<ingest_host, host_queries, req, srv_seq,
                           continuation_token, offset_token>>
       ELSE /\ EnsureTokenOk(expired)
            /\ ingest_host' = IF ingest_host = None THEN host ELSE ingest_host
            /\ host_queries' = IF ingest_host = None
                               THEN host_queries + 1 ELSE host_queries
            /\ req' = Request("open")
            /\ raised' = ExceptionOf(resp, isRequestException)
            /\ IF resp \in {"ok", "ok_no_token"}
               THEN /\ srv_seq' = IF resp = "ok" THEN srv_seq + 1 ELSE srv_seq
                    /\ continuation_token' =
                           IF resp = "ok" THEN srv_seq + 1 ELSE None
                    /\ offset_token' = initial_offset(committed)
               ELSE UNCHANGED <<srv_seq, continuation_token, offset_token>>

\* get_channel_status: the host guard, the token, the POST. The status it
\* returns is stored nowhere.
get_channel_status(resp, isRequestException, expired) ==
    IF ingest_host = None
    THEN /\ raised' = ExceptionOf("no_host", FALSE)
         /\ UNCHANGED <<tokenVars, req>>
    ELSE IF resp = "token_error"
    THEN /\ EnsureTokenRaises(expired)
         /\ raised' = ExceptionOf(resp, FALSE)
         /\ UNCHANGED req
    ELSE /\ EnsureTokenOk(expired)
         /\ req' = Request("status")
         /\ raised' = ExceptionOf(resp, isRequestException)

\* What a status poll reads as committed_offset_token: the key is absent,
\* holds a number, or holds a value that is no number (a string, null).
StatusOffsets ==
    {[kind |-> "absent", value |-> 0], [kind |-> "text", value |-> 0]}
    \cup [kind : {"number"}, value : {0, 1, 2}]

\* status.get('committed_offset_token', 0)
committed_offset(status) ==
    IF status.kind = "absent" THEN 0 ELSE status.value

\* A comparison that takes the offset before the expected one as enough.
commit_reached_early(status, expected) ==
    status.kind # "text" /\ committed_offset(status) + 1 >= expected

\* "committed_offset >= expected_offset" evaluates to true; on a value that
\* is no number the comparison raises TypeError instead.
commit_reached(status, expected) ==
    status.kind # "text" /\ committed_offset(status) >= expected

\* No wait_for_commit call has been made.
NoWait == [pc |-> "idle", expected |-> 0, start |-> 0, timeout |-> 0,
           polled |-> [kind |-> "absent", value |-> 0], polled_at |-> 0,
           swallowed |-> 0, result |-> "none", call |-> 0,
           before |-> <<0, None>>]

\* wait_for_commit up to its loop: start_time = time.time().
wait_for_commit(expected, timeout) ==
    wait' = [NoWait EXCEPT !.pc = "polling", !.expected = expected,
                           !.start = now, !.timeout = timeout,
                           !.call = calls',
                           !.before = <<offset_token, continuation_token>>]

\* The loop condition: time.time() - start_time < timeout.
within_timeout == now - wait.start < wait.timeout

\* One turn of the loop: get_channel_status, the comparison, and either
\* "return True" or time.sleep(poll_interval); every Exception is logged
\* and followed by the same sleep.
wait_poll(resp, isRequestException, status, expired, poll_interval) ==
    /\ wait.pc = "polling"
    /\ within_timeout
    /\ get_channel_status(resp, isRequestException, expired)
    /\ IF raised' = "" /\ commit_reached(status, wait.expected)
       THEN /\ wait' = [wait EXCEPT !.pc = "idle", !.result = "True",
                                    !.polled = status, !.polled_at = now]
            /\ now' = now
       ELSE /\ wait' = [wait EXCEPT !.swallowed =
                           IF raised' # "" \/ status.kind = "text"
                           THEN @ + 1 ELSE @]
            /\ now' = now + poll_interval

\* The loop ends: "return False".
wait_timeout ==
    /\ wait.pc = "polling"
    /\ ~within_timeout
    /\ wait' = [wait EXCEPT !.pc = "idle", !.result = "False"]
    /\ raised' = ""

\* An offset that counts rows instead of append calls.
new_offset_per_row(off, rows) == off + Len(rows)

\* new_offset = self.offset_token + 1, whatever the rows.
new_offset(off, rows) == off + 1

\* The guard of append_rows: "Channel not opened".
ChannelOpened == ingest_host # None /\ continuation_token # None

\* A client that keeps the token it sent.
keep_sent_token(data, sent) == sent

\* The token append_rows stores from a 2xx response with a JSON object body:
\* data.get('next_continuation_token'); sent is the token of the request.
next_continuation_token(data, sent) == data

\* append_rows up to requests.post: the channel guard, the token, the
\* offset and the request parameters. pre is what happens before the
\* request leaves: "sent", "not_opened" or "token_error".
AppendSend(rows, pre, expired) ==
    /\ rows # <<>>
    /\ \/ /\ pre = "not_opened"
          /\ ~ChannelOpened
          /\ UNCHANGED <<tokenVars, inflight, req>>
          /\ ncalls' = ncalls + 1
          /\ outcome' = "not_opened"
          /\ raised' = ExceptionOf(pre, FALSE)
       \/ /\ pre = "token_error"
          /\ ChannelOpened
          /\ EnsureTokenRaises(expired)
          /\ UNCHANGED <<inflight, req>>
          /\ ncalls' = ncalls + 1
          /\ outcome' = "token_error"
          /\ raised' = ExceptionOf(pre, FALSE)
       \/ /\ pre = "sent"
          /\ ChannelOpened
          /\ EnsureTokenOk(expired)
          /\ inflight' = [sent |-> TRUE,
                          continuationToken |-> continuation_token,
                          offsetToken |-> new_offset(offset_token, rows),
                          rows |-> rows]
          /\ req' = Request("append")
          /\ UNCHANGED <<ncalls, outcome, raised>>
    /\ UNCHANGED <<sessionVars, cstats, srv_seq, nopen, host_queries,
                   open_response>>

\* What comes back for a request on the wire:
\*   ok            2xx, a JSON object with next_continuation_token
\*   ok_no_token   2xx, a JSON object without next_continuation_token
\*   network_error requests.post raises (connection error, timeout)
\*   http_error    raise_for_status raises
\*   unreadable    response.json() raises, or the body is no JSON object
Responses == {"ok", "ok_no_token", "network_error", "http_error", "unreadable"}

\* Whether the exception of an unreadable response is a
\* requests.exceptions.RequestException: the JSONDecodeError of requests
\* 2.27 and later is one; the ValueError of earlier versions and the
\* AttributeError of data.get on a body that is no object are not.
\* unauthorized is the http_error of a 401: the server rejects the bearer
\* token.
CountedAsError(resp, isRequestException) ==
    \/ resp \in {"network_error", "http_error", "unauthorized"}
    \/ resp = "unreadable" /\ isRequestException

\* append_rows from the response on.
AppendReceive(resp, isRequestException) ==
    /\ inflight.sent
    /\ inflight' = NoReq
    /\ ncalls' = ncalls + 1
    /\ outcome' = resp
    /\ raised' = ExceptionOf(resp, isRequestException)
    /\ IF resp \in {"ok", "ok_no_token"}
       THEN /\ srv_seq' = IF resp = "ok" THEN srv_seq + 1 ELSE srv_seq
            /\ continuation_token' =
                   next_continuation_token(
                       IF resp = "ok" THEN srv_seq + 1 ELSE None,
                       inflight.continuationToken)
            /\ offset_token' = inflight.offsetToken
            /\ cstats' = [cstats EXCEPT
                            !.total_rows_sent = @ + Len(inflight.rows),
                            !.total_batches = @ + 1]
       ELSE /\ UNCHANGED <<srv_seq, continuation_token, offset_token>>
            /\ cstats' = [cstats EXCEPT !.errors =
                            IF CountedAsError(resp, isRequestException)
                            THEN @ + 1 ELSE @]
    /\ UNCHANGED <<ingest_host, tokenVars, nopen, host_queries,
                   open_response, req>>

\* A close_channel that forgets the session of the channel.
close_channel_resets ==
    /\ close_calls' = close_calls + 1
    /\ continuation_token' = None /\ offset_token' = 0

\* close_channel only logs: the session stays as it is.
close_channel ==
    /\ close_calls' = close_calls + 1
    /\ UNCHANGED <<continuation_token, offset_token>>

\* ------------------------------------------ MeshtasticSnowflakeStreamer
Range(q) == {q[i] : i \in 1..Len(q)}

\* The state after construction, but for the packet of the receiver.
InitProgram ==
    /\ running = FALSE
    /\ shutdown = FALSE
    /\ queue = <<>>
    /\ sstats = [messages_received |-> 0, messages_sent |-> 0,
                 batches_sent |-> 0, errors |-> 0]
    /\ receiver = "none"
    /\ mpc = "start"
    /\ join_elapsed = 0
    /\ close_calls = 0
    /\ ppc = "idle"
    /\ produced = 0
    /\ wpc = "unstarted"
    /\ batch = <<>>
    /\ elapsed = 0
    /\ log = <<>>
    /\ auth_method \in {"pat", "jwt"}
    /\ ingest_host = None
    /\ continuation_token = None
    /\ offset_token = 0
    /\ scoped_token = None
    /\ token_expiry = None
    /\ cstats = [total_rows_sent |-> 0, total_batches |-> 0, errors |-> 0]
    /\ inflight = NoReq
    /\ ncalls = 0
    /\ outcome = "none"
    /\ nopen = 0
    /\ raised = ""
    /\ srv_seq = 0
    /\ auth_seq = 0
    /\ host_queries = 0
    /\ open_response = [resp |-> "none", committed |-> -1]
    /\ req = NoRequest
    /\ now = 0
    /\ calls = 0
    /\ at_signal = {}
    /\ wait = NoWait
    /\ message = "none"
    /\ received = 0
    /\ delivered = 0

\* Before the receiver has seen a packet, and before _prepare_row and
\* convert_value have been called.
InitParts ==
    /\ reading = NoReading
    /\ previous = NoMessage
    /\ row = NoRow
    /\ sanitized = NoValue

\* A run of the streamer or a session on the client: the client has been
\* constructed from a configuration with a credential, and the parsing of
\* packets, the rows and their values are not looked at.
Init ==
    /\ InitProgram
    /\ reading = Nil /\ previous = Nil /\ row = Nil /\ sanitized = Nil
    /\ packet = Nil /\ given = Nil
    /\ row_message = Nil
    /\ payload = Nil
    /\ config = ConfigOf(auth_method) /\ client = "created"

\* A start() that goes on after a failed step.
startup_step_swallowed(ok, next) == next

\* start() calls connect_snowflake() and connect_meshtastic() outside any
\* try block, and main() calls start() outside any: a step that raises ends
\* start() and the process, a step that returns leads to the next one.
startup_step(ok, next) == IF ok THEN next ELSE "failed"

\* connect_snowflake, first half: the client is constructed and
\* discover_ingest_host is called. Any failure leaves start().
DiscoverIngestHost(resp) ==
    /\ mpc = "start"
    /\ discover_ingest_host(resp, 1, FALSE)
    /\ mpc' = startup_step(raised' = "", "discovered")
    /\ UNCHANGED <<streamerVars, join_elapsed, close_calls, producerVars,
                   workerVars, fixedVars, continuation_token, offset_token,
                   appendVars, nopen, open_response, at_signal>>

\* connect_snowflake, second half: open_channel. committed is the server's
\* last_committed_offset_token.
OpenChannel(resp, isRequestException, committed, expired) ==
    /\ mpc = "discovered"
    /\ open_channel("ok", 1, resp, isRequestException, committed, expired)
    /\ mpc' = startup_step(raised' = "", "opened")
    /\ UNCHANGED <<streamerVars, join_elapsed, close_calls, producerVars,
                   workerVars, fixedVars, cstats, inflight, ncalls, outcome,
                   open_response, at_signal>>

\* connect_meshtastic: from here on the device calls the message callback.
ConnectMeshtastic(ok) ==
    /\ mpc = "opened"
    /\ receiver' = IF ok THEN "open" ELSE receiver
    /\ mpc' = startup_step(ok, "connected")
    /\ UNCHANGED <<running, shutdown, queue, sstats, join_elapsed,
                   close_calls, producerVars, workerVars, fixedVars,
                   clientVars, at_signal>>

\* start(): self.running = True, the worker thread starts and runs up to
\* its loop (batch = [], last_flush = time.time()).
StartWorker ==
    /\ mpc = "connected"
    /\ running' = TRUE
    /\ wpc' = "loop"
    /\ batch' = <<>>
    /\ elapsed' = 0
    /\ mpc' = "loop"
    /\ UNCHANGED <<shutdown, queue, sstats, receiver, join_elapsed,
                   close_calls, producerVars, log, fixedVars, clientVars, at_signal>>

\* The guard at the top of stop().
stop_returns_at_once(run, shut) == ~run /\ shut

\* start(): the wait loop ends, the finally block sets the shutdown event
\* and calls stop(). stop() either returns at its guard, and start() and
\* main() return with it, or closes the receiver and joins the worker.
MainLoopExit ==
    /\ mpc = "loop"
    /\ ~running \/ shutdown
    /\ shutdown' = TRUE
    /\ IF stop_returns_at_once(running, TRUE)
       THEN /\ mpc' = "exited"
            /\ UNCHANGED <<running, receiver, join_elapsed>>
       ELSE /\ running' = FALSE
            /\ receiver' = "closed"
            /\ join_elapsed' = 0
            /\ mpc' = "join"
    /\ UNCHANGED <<queue, sstats, close_calls, producerVars, workerVars,
                   fixedVars, clientVars, at_signal>>

\* stop(): worker_thread.join(timeout=5) returns because the worker ended
\* or because the timeout passed; close_channel; stop(), start() and
\* main() return.
JoinReturns ==
    /\ mpc = "join"
    /\ wpc = "done" \/ join_elapsed >= JoinTimeout
    /\ close_channel
    /\ mpc' = "exited"
    /\ UNCHANGED <<streamerVars, join_elapsed, producerVars, workerVars,
                   fixedVars, ingest_host, tokenVars, appendVars, callVars,
                   at_signal>>

\* _signal_handler, first signal: the event is set and running cleared.
Signal ==
    /\ alive
    /\ ~shutdown
    /\ shutdown' = TRUE
    /\ running' = FALSE
    /\ at_signal' = Range(queue) \cup
                    (IF wpc \in {"done"} THEN {} ELSE Range(batch))
    /\ UNCHANGED <<queue, sstats, receiver, mainVars, producerVars,
                   workerVars, fixedVars, clientVars>>

\* _signal_handler, second signal: sys.exit(1) in the main thread. In the
\* wait loop the finally block of start() still runs stop(); anywhere else
\* SystemExit leaves start() at once.
SecondSignal ==
    /\ alive
    /\ shutdown
    /\ IF mpc = "loop" /\ ~stop_returns_at_once(running, TRUE)
       THEN /\ running' = FALSE
            /\ receiver' = "closed"
            /\ join_elapsed' = 0
            /\ mpc' = "join"
       ELSE /\ mpc' = "exited"
            /\ UNCHANGED <<running, receiver, join_elapsed>>
    /\ UNCHANGED <<shutdown, queue, sstats, close_calls, producerVars,
                   workerVars, fixedVars, clientVars, at_signal>>

\* self.message_queue = Queue(): maxsize 0, a queue without a bound.
queue_maxsize == 0

\* A queue that holds one reading at most.
put_blocks_at_one(q) == Len(q) >= 1

\* Queue.put blocks while a bounded queue is full.
put_blocks(q) == queue_maxsize > 0 /\ Len(q) >= queue_maxsize

\* _on_meshtastic_message: message_queue.put(message) ...
OnMessagePut ==
    /\ alive
    /\ receiver = "open"
    /\ ppc = "idle"
    /\ produced < MaxReadings
    /\ ~put_blocks(queue)
    /\ queue' = Append(queue, produced + 1)
    /\ produced' = produced + 1
    /\ ppc' = "count"
    /\ UNCHANGED <<running, shutdown, sstats, receiver, mainVars,
                   workerVars, fixedVars, clientVars, at_signal>>

\* ... then stats['messages_received'] += 1.
OnMessageCount ==
    /\ alive
    /\ ppc = "count"
    /\ sstats' = [sstats EXCEPT !.messages_received = @ + 1]
    /\ ppc' = "idle"
    /\ UNCHANGED <<running, shutdown, queue, receiver, mainVars, produced,
                   workerVars, fixedVars, clientVars, at_signal>>

\* ------------------------------------------------- _streaming_worker
\* A size threshold that waits for one reading more.
should_flush_above(b, el) ==
    Len(b) > batch_size \/ (b # <<>> /\ el >= FlushTicks)

\* A flush of every non-empty batch, whatever the time.
should_flush_untimed(b, el) == Len(b) >= batch_size \/ b # <<>>

\* A flush on time alone, without the size threshold.
should_flush_on_time(b, el) == b # <<>> /\ el >= FlushTicks

\* should_flush of the worker loop.
should_flush(b, el) == Len(b) >= batch_size \/ (b # <<>> /\ el >= FlushTicks)

\* A worker that keeps a failed batch for the next cycle.
keep_failed_batch(b, ok) == IF ok THEN <<>> ELSE b

\* The batch the worker holds once _flush_batch has returned in the loop:
\* "batch = []", whatever _flush_batch returned.
batch_after_flush(b, ok) == <<>>

\* A worker that puts the new message in front.
batch_prepend(b, m) == <<m>> \o b

\* A worker that loses the message when the batch is not empty.
batch_replace(b, m) == <<m>>

\* batch.append(message)
batch_append(b, m) == Append(b, m)

\* "if self._shutdown_event.is_set() and self.message_queue.empty(): break",
\* then on to the final flush or back to the loop condition.
AfterIteration(q) == IF shutdown /\ q = <<>> THEN "final" ELSE "loop"

\* One tick of wall-clock time.
Tick ==
    /\ elapsed' = Min(elapsed + 1, FlushTicks)
    /\ join_elapsed' = IF mpc = "join"
                       THEN Min(join_elapsed + 1, JoinTimeout)
                       ELSE join_elapsed

\* A _flush_batch that swallows the exception without counting it.
flush_error_uncounted(st) == st

\* _flush_batch, except Exception: self.stats['errors'] += 1
flush_error(st) == [st EXCEPT !.errors = @ + 1]

\* A worker that hands the request over and goes on with its loop.
send_and_go_on(q) == AfterIteration(q)

\* The worker is inside _flush_batch until insert_rows has returned or
\* raised: the call is synchronous.
wait_for_append(q) == "flushing"

\* _flush_batch(messages) up to the request of append_rows: the rows are
\* prepared and passed to insert_rows, which passes them to append_rows.
\* When append_rows raises before sending, _flush_batch counts the error
\* and returns False.
FlushBegin(messages, pre, expired) ==
    /\ messages # <<>>
    /\ log' = Append(log, messages)
    /\ AppendSend(messages, pre, expired)
    /\ sstats' = IF pre = "sent" THEN sstats ELSE flush_error(sstats)

\* An insert_rows that reports one row for every call.
insert_rows_counts_calls(rows) == IF rows = <<>> THEN 0 ELSE 1

\* What insert_rows returns when append_rows has returned: len(rows), and 0
\* for no rows.
insert_rows(rows) == IF rows = <<>> THEN 0 ELSE Len(rows)

\* _flush_batch from the response on: insert_rows returns len(rows) and the
\* counters move, or the exception is counted.
FlushEnd(resp, isRequestException) ==
    /\ AppendReceive(resp, isRequestException)
    /\ sstats' = IF resp \in {"ok", "ok_no_token"}
                 THEN [sstats EXCEPT
                         !.messages_sent = @ + insert_rows(inflight.rows),
                         !.batches_sent = @ + 1]
                 ELSE flush_error(sstats)

\* while self.running or not self.message_queue.empty():
WorkerLoop ==
    /\ alive
    /\ wpc = "loop"
    /\ wpc' = IF running \/ queue # <<>> THEN "get" ELSE "final"
    /\ UNCHANGED <<streamerVars, mainVars, producerVars, batch, elapsed, log,
                   fixedVars, clientVars, at_signal>>

\* message_queue.get(timeout=0.5): a message, or Empty after the timeout.
WorkerGet ==
    /\ alive
    /\ wpc = "get"
    /\ IF queue # <<>>
       THEN /\ batch' = batch_append(batch, Head(queue))
            /\ queue' = Tail(queue)
            /\ UNCHANGED <<elapsed, join_elapsed>>
       ELSE /\ Tick
            /\ UNCHANGED <<batch, queue>>
    /\ wpc' = "check"
    /\ UNCHANGED <<running, shutdown, sstats, receiver, mpc, close_calls,
                   producerVars, log, fixedVars, clientVars, at_signal>>

\* The rest of the iteration when nothing is flushed.
WorkerNoFlush ==
    /\ alive
    /\ wpc = "check"
    /\ ~(should_flush(batch, elapsed) /\ batch # <<>>)
    /\ wpc' = AfterIteration(queue)
    /\ UNCHANGED <<streamerVars, mainVars, producerVars, batch, elapsed, log,
                   fixedVars, clientVars, at_signal>>

\* The rest of the iteration when the batch is flushed: _flush_batch begins.
WorkerFlush(pre, expired) ==
    /\ alive
    /\ wpc = "check"
    /\ should_flush(batch, elapsed) /\ batch # <<>>
    /\ FlushBegin(batch, pre, expired)
    /\ IF pre = "sent"
       THEN /\ wpc' = wait_for_append(queue)
            /\ UNCHANGED <<batch, elapsed>>
       ELSE /\ batch' = batch_after_flush(batch, FALSE)
            /\ elapsed' = 0
            /\ wpc' = AfterIteration(queue)
    /\ UNCHANGED <<running, shutdown, queue, receiver, mainVars,
                   producerVars, fixedVars, at_signal>>

\* _flush_batch returns in the loop: batch = [], last_flush = time.time().
WorkerFlushReturn(resp, isRequestException) ==
    /\ alive
    /\ wpc = "flushing"
    /\ FlushEnd(resp, isRequestException)
    /\ batch' = batch_after_flush(batch, resp \in {"ok", "ok_no_token"})
    /\ elapsed' = 0
    /\ wpc' = AfterIteration(queue)
    /\ UNCHANGED <<running, shutdown, queue, receiver, mainVars,
                   producerVars, log, fixedVars, at_signal>>

\* After the loop: "if batch: self._flush_batch(batch)".
WorkerFinalFlush(pre, expired) ==
    /\ alive
    /\ wpc = "final"
    /\ batch # <<>>
    /\ FlushBegin(batch, pre, expired)
    /\ wpc' = IF pre = "sent" THEN "finalflushing" ELSE "done"
    /\ UNCHANGED <<running, shutdown, queue, receiver, mainVars,
                   producerVars, batch, elapsed, fixedVars, at_signal>>

WorkerFinalNoFlush ==
    /\ alive
    /\ wpc = "final"
    /\ batch = <<>>
    /\ wpc' = "done"
    /\ UNCHANGED <<streamerVars, mainVars, producerVars, batch, elapsed, log,
                   fixedVars, clientVars, at_signal>>

\* The final _flush_batch returns and the worker ends.
WorkerFinalReturn(resp, isRequestException) ==
    /\ alive
    /\ wpc = "finalflushing"
    /\ FlushEnd(resp, isRequestException)
    /\ wpc' = "done"
    /\ UNCHANGED <<running, shutdown, queue, receiver, mainVars,
                   producerVars, batch, elapsed, log, fixedVars, at_signal>>

\* Time passes while the append request is on the wire (timeout=30).
NetworkDelay ==
    /\ alive
    /\ wpc \in {"flushing", "finalflushing"}
    /\ Tick
    /\ UNCHANGED <<streamerVars, mpc, close_calls, producerVars, wpc, batch,
                   log, fixedVars, clientVars, at_signal>>

PreSend == {"sent", "not_opened", "token_error"}

Next ==
    \/ \E resp \in HostResponses : DiscoverIngestHost(resp)
    \/ \E resp \in OpenResponses, isRequestException \in BOOLEAN,
          committed \in CommittedOffsets, expired \in BOOLEAN :
           OpenChannel(resp, isRequestException, committed, expired)
    \/ \E ok \in BOOLEAN : ConnectMeshtastic(ok)
    \/ StartWorker
    \/ MainLoopExit
    \/ JoinReturns
    \/ Signal
    \/ SecondSignal
    \/ OnMessagePut
    \/ OnMessageCount
    \/ WorkerLoop
    \/ WorkerGet
    \/ WorkerNoFlush
    \/ \E pre \in PreSend, expired \in BOOLEAN : WorkerFlush(pre, expired)
    \/ \E resp \in Responses, isRequestException \in BOOLEAN :
           WorkerFlushReturn(resp, isRequestException)
    \/ \E pre \in PreSend, expired \in BOOLEAN :
           WorkerFinalFlush(pre, expired)
    \/ WorkerFinalNoFlush
    \/ \E resp \in Responses, isRequestException \in BOOLEAN :
           WorkerFinalReturn(resp, isRequestException)
    \/ NetworkDelay

Spec == Init /\ [][Next]_vars

\* The steps of the worker thread. The thread is scheduled as long as the
\* process lives, and requests.post(..., timeout=30) returns or raises: a
\* step of the worker that stays possible is taken in the end.
WorkerStep ==
    \/ WorkerLoop
    \/ WorkerGet
    \/ WorkerNoFlush
    \/ \E pre \in PreSend, expired \in BOOLEAN : WorkerFlush(pre, expired)
    \/ \E resp \in Responses, isRequestException \in BOOLEAN :
           WorkerFlushReturn(resp, isRequestException)
    \/ \E pre \in PreSend, expired \in BOOLEAN :
           WorkerFinalFlush(pre, expired)
    \/ WorkerFinalNoFlush
    \/ \E resp \in Responses, isRequestException \in BOOLEAN :
           WorkerFinalReturn(resp, isRequestException)

SpecLive == Init /\ [][Next]_vars /\ WF_vars(WorkerStep)

\* ------------------------------------- a session on the client alone
\* A caller, such as a test, that constructs a SnowpipeStreamingClient and
\* calls its methods one after the other, in any order, while time passes.
\* The hostname the control endpoint answers with, and the rows passed
\* to append_rows.
Hosts == {1}
Batches == {<<1, 2>>}

\* The session calls a client method.
Call ==
    /\ client = "created"
    /\ calls < MaxCalls /\ wait.pc = "idle" /\ calls' = calls + 1

\* The comparison of _ensure_valid_token at the session's clock.
Expired == token_is_expired(now, token_expiry)

\* time.time() moves on.
TimePasses ==
    /\ now < MaxClock * ClockStep
    /\ now' = now + ClockStep
    /\ UNCHANGED <<pipelineVars, clientVars, auth_method, otherVars, waitVars,
                   calls>>

\* client.discover_ingest_host()
CallDiscover(resp, host) ==
    /\ ~inflight.sent
    /\ Call
    /\ discover_ingest_host(resp, host, Expired)
    /\ UNCHANGED <<pipelineVars, auth_method, otherVars, waitVars, now, continuation_token, offset_token,
                   appendVars, nopen, open_response>>

\* client.open_channel()
CallOpen(dresp, host, resp, isRequestException, committed) ==
    /\ ~inflight.sent
    /\ Call
    /\ ingest_host # None => dresp = "ok" /\ host = ingest_host
    /\ resp \notin {"ok", "ok_no_token"} => committed = -1
    /\ resp # "unreadable" => isRequestException
    /\ open_channel(dresp, host, resp, isRequestException, committed, Expired)
    /\ open_response' =
           IF (ingest_host = None /\ dresp # "ok") \/ resp = "token_error"
           THEN open_response
           ELSE [resp |-> resp, committed |-> committed]
    /\ UNCHANGED <<pipelineVars, auth_method, otherVars, waitVars, now, cstats, inflight, ncalls,
                   outcome>>

\* client.append_rows(rows) up to the request.
CallAppend(rows, pre) ==
    /\ ~inflight.sent
    /\ Call
    /\ AppendSend(rows, pre, Expired)
    /\ UNCHANGED <<pipelineVars, auth_method, otherVars, waitVars, now>>

\* client.append_rows([]): "if not rows: return self.offset_token".
CallAppendEmpty ==
    /\ ~inflight.sent
    /\ Call
    /\ raised' = ""
    /\ UNCHANGED <<pipelineVars, auth_method, otherVars, waitVars, now, sessionVars, tokenVars,
                   appendVars, nopen, host_queries, open_response, req>>

\* client.append_rows(rows) from the response on.
CallAppendReturns(resp, isRequestException) ==
    /\ resp # "unreadable" => isRequestException
    /\ AppendReceive(resp, isRequestException)
    /\ UNCHANGED <<pipelineVars, auth_method, otherVars, waitVars, now, calls>>

\* client.get_channel_status()
CallStatus(resp, isRequestException) ==
    /\ ~inflight.sent
    /\ Call
    /\ resp # "unreadable" => isRequestException
    /\ get_channel_status(resp, isRequestException, Expired)
    /\ UNCHANGED <<pipelineVars, auth_method, otherVars, waitVars, now, sessionVars, appendVars, nopen,
                   host_queries, open_response>>

StatusResponses == {"ok", "network_error", "http_error", "unreadable",
                    "token_error"}

NextClient ==
    \/ TimePasses
    \/ \E resp \in HostResponses, host \in Hosts : CallDiscover(resp, host)
    \/ \E dresp \in HostResponses, host \in Hosts, resp \in OpenResponses,
          isRequestException \in BOOLEAN, committed \in CommittedOffsets :
           CallOpen(dresp, host, resp, isRequestException, committed)
    \/ \E rows \in Batches, pre \in PreSend : CallAppend(rows, pre)
    \/ CallAppendEmpty
    \/ \E resp \in Responses \cup {"unauthorized"},
          isRequestException \in BOOLEAN :
           CallAppendReturns(resp, isRequestException)
    \/ \E resp \in StatusResponses, isRequestException \in BOOLEAN :
           CallStatus(resp, isRequestException)

SpecClient == Init /\ [][NextClient]_vars

\* --------------------------------------- a session that waits for a commit
\* The timeouts and the poll interval a session passes.
Timeouts == {0, ClockStep, 2 * ClockStep}
PollInterval == ClockStep
ExpectedOffsets == {0, 1, 2}

\* client.wait_for_commit(expected_offset, timeout, poll_interval)
CallWaitForCommit(expected, timeout) ==
    /\ ~inflight.sent
    /\ wait = NoWait
    /\ Call
    /\ wait_for_commit(expected, timeout)
    /\ UNCHANGED <<pipelineVars, clientVars, auth_method, otherVars, now>>

WaitPoll(resp, isRequestException, status) ==
    /\ resp # "unreadable" => isRequestException
    /\ resp # "ok" => status.kind = "absent"
    /\ wait_poll(resp, isRequestException, status, Expired, PollInterval)
    /\ UNCHANGED <<pipelineVars, auth_method, otherVars, sessionVars,
                   appendVars, nopen, host_queries, open_response, calls>>

WaitTimeout ==
    /\ wait_timeout
    /\ UNCHANGED <<pipelineVars, auth_method, otherVars, sessionVars,
                   tokenVars, appendVars, nopen, host_queries, open_response,
                   req, now, calls>>

\* The session of main(): discover_ingest_host, open_channel and then
\* wait_for_commit, each once at most; the wait is its last call.
WaitSessionDiscover(resp, host) ==
    /\ host_queries = 0 /\ nopen = 0 /\ wait = NoWait
    /\ CallDiscover(resp, host)

WaitSessionOpen(dresp, host, resp, isRequestException, committed) ==
    /\ nopen = 0 /\ wait = NoWait
    /\ CallOpen(dresp, host, resp, isRequestException, committed)

NextWait ==
    \/ TimePasses
    \/ \E resp \in HostResponses, host \in Hosts :
           WaitSessionDiscover(resp, host)
    \/ \E dresp \in HostResponses, host \in Hosts, resp \in OpenResponses,
          isRequestException \in BOOLEAN, committed \in CommittedOffsets :
           WaitSessionOpen(dresp, host, resp, isRequestException, committed)
    \/ \E expected \in ExpectedOffsets, timeout \in Timeouts :
           CallWaitForCommit(expected, timeout)
    \/ \E resp \in StatusResponses, isRequestException \in BOOLEAN,
          status \in StatusOffsets :
           WaitPoll(resp, isRequestException, status)
    \/ WaitTimeout

SpecWait == Init /\ [][NextWait]_vars

\* ------------------------------------- the construction of the client
\* "'k' in config and config['k']"
NonEmpty(value) == value \notin {"absent", ""}

\* A provider that falls back to the key pair when no method is configured.
auth_init_default_jwt(c, keyLoads) ==
    IF ~c.account \/ ~c.user THEN "KeyError"
    ELSE IF NonEmpty(c.pat) THEN "pat"
    ELSE IF keyLoads THEN "jwt" ELSE "KeyLoadError"

\* SnowflakeJWTAuth.__init__: config['account'] and config['user'] are
\* read first (KeyError when missing); then the method is 'pat', or 'jwt'
\* with the key file loaded (open or load_pem_private_key may raise), or
\* ValueError("No authentication method configured...") is raised. The
\* result is the auth_method of the provider or the exception.
auth_init(c, keyLoads) ==
    IF ~c.account \/ ~c.user THEN "KeyError"
    ELSE IF NonEmpty(c.pat) THEN "pat"
    ELSE IF NonEmpty(c.private_key_file)
    THEN IF keyLoads THEN "jwt" ELSE "KeyLoadError"
    ELSE "ValueError"

\* The state before the client is constructed. auth_method is the method
\* the provider has once it exists.
InitAuth ==
    /\ InitProgram /\ InitParts
    /\ packet = NoPacket /\ given = NoPacket
    /\ row_message = NoRowMessage
    /\ payload = NoPayload
    /\ config \in Configs
    /\ auth_method = IF NonEmpty(config.pat) THEN "pat" ELSE "jwt"
    /\ client = "none"

\* SnowpipeStreamingClient.__init__: self.jwt_auth = SnowflakeJWTAuth(
\* self.config) raises, or the client is there with its fields set.
ConstructClient(keyLoads) ==
    /\ client = "none"
    /\ client' = IF auth_init(config, keyLoads) \in {"pat", "jwt"}
                 THEN "created" ELSE auth_init(config, keyLoads)
    /\ UNCHANGED <<pipelineVars, clientVars, auth_method, now, calls,
                   waitVars, receiverVars, rowVars, sanitizeVars, config>>

NextAuth ==
    \/ TimePasses
    \/ \E keyLoads \in BOOLEAN : ConstructClient(keyLoads)
    \/ \E resp \in HostResponses, host \in Hosts : CallDiscover(resp, host)
    \/ \E dresp \in HostResponses, host \in Hosts, resp \in OpenResponses,
          isRequestException \in BOOLEAN, committed \in CommittedOffsets :
           CallOpen(dresp, host, resp, isRequestException, committed)

SpecAuth == InitAuth /\ [][NextAuth]_vars

\* ------------------------------------------------ MeshtasticReceiver
\* 'WORD' in str(portnum)
InName(word, portnum) == \E i \in 1..Len(portnum.name) : portnum.name[i] = word

is_position(decoded) ==
    \/ InName("POSITION", decoded.portnum)
    \/ decoded.portnum.num = 3
    \/ "position" \in decoded.keys

is_text(decoded) ==
    \/ InName("TEXT", decoded.portnum)
    \/ decoded.portnum.num = 1
    \/ "text" \in decoded.keys

is_telemetry(decoded) ==
    \/ InName("TELEMETRY", decoded.portnum)
    \/ decoded.portnum.num = 67
    \/ "telemetry" \in decoded.keys

is_nodeinfo(decoded) ==
    \/ InName("NODEINFO", decoded.portnum)
    \/ decoded.portnum.num = 4
    \/ "user" \in decoded.keys

\* A receiver that looks for text before position.
packet_type_text_first(decoded) ==
    IF is_text(decoded) THEN "text"
    ELSE IF is_position(decoded) THEN "position"
    ELSE IF is_telemetry(decoded) THEN "telemetry"
    ELSE IF is_nodeinfo(decoded) THEN "nodeinfo"
    ELSE "raw"

\* The if/elif chain of _on_receive and the packet_type the chosen
\* _parse_*_packet sets.
packet_type(decoded) ==
    IF is_position(decoded) THEN "position"
    ELSE IF is_text(decoded) THEN "text"
    ELSE IF is_telemetry(decoded) THEN "telemetry"
    ELSE IF is_nodeinfo(decoded) THEN "nodeinfo"
    ELSE "raw"

\* x / k and x * k and x + k of a number x, None of None excluded by the
\* callers.
Divide(x, k) == <<x[1], x[2] * k>>
Times(x, k) == <<x[1] * k, x[2]>>
Plus(x, k) == <<x[1] + k * x[2], x[2]>>
\* bool(x) of an optional number: None and 0 are false.
Truthy(x) == x # Nil /\ x[1] # 0

\* lat = position.get('latitude')
\* if lat is None and position.get('latitudeI'):
\*     lat = position.get('latitudeI') / 1e7
coordinate(float, fixed) ==
    IF float = Nil /\ Truthy(fixed) THEN Divide(fixed, CoordinateScale)
    ELSE float

\* A conversion that takes 0 degrees for no temperature.
temperature_f_if_truthy(t) ==
    IF Truthy(t) THEN Plus(Divide(Times(t, 9), 5), 32) ELSE Nil

\* ((t * 9/5) + 32) if t is not None else None
temperature_f(t) ==
    IF t # Nil THEN Plus(Divide(Times(t, 9), 5), 32) ELSE Nil

\* A parser that takes the payload out of the packet it reads.
packet_after_parse_consumed(p) == [p EXCEPT !.keys = {}]

\* The parsers only read the packet: packet.get(...), decoded.get(...).
packet_after_parse(p) == p

\* The fields of a message besides packet_type. _parse_packet sets
\* received_at, from_id = str(from_id) if from_id else None (the string of
\* n is <<n>>) and raw_packet; _parse_position_packet adds latitude and
\* longitude, _parse_telemetry_packet temperature and temperature_f. at is
\* datetime.now().
parse_packet(p, kind, at) ==
    [received_at |-> at,
     from_id |-> IF p.from # None THEN <<p.from>> ELSE Nil,
     latitude |-> IF kind = "position"
                  THEN coordinate(p.position.latitude, p.position.latitudeI)
                  ELSE Nil,
     longitude |-> IF kind = "position"
                   THEN coordinate(p.position.longitude,
                                   p.position.longitudeI)
                   ELSE Nil,
     temperature |-> IF kind = "telemetry" THEN p.temperature ELSE Nil,
     temperature_f |-> IF kind = "telemetry"
                       THEN temperature_f(p.temperature) ELSE Nil,
     raw_packet |-> p]

\* packet.get('decoded', {}) or decoded.get('portnum', '') raises
\* AttributeError when the packet or its decoded value has no get().
parse_raises(p) == p.decoded # "dict"

InitReceive ==
    /\ InitProgram /\ InitParts
    /\ packet \in Packets /\ given = packet
    /\ row_message = NoRowMessage
    /\ payload = NoPayload
    /\ config = ConfigOf(auth_method) /\ client = "created"

\* _on_receive(packet, interface): the message is made, appended to
\* message_queue and passed to on_message_callback ("if message:" is true
\* of every dict a parser returns, it holds packet_type and the other
\* keys); an exception on the way is logged and nothing else happens.
OnReceive ==
    /\ received < Deliveries
    /\ received' = received + 1
    /\ previous' = [message |-> message, reading |-> reading]
    /\ IF parse_raises(packet)
       THEN /\ message' = "none"
            /\ reading' = NoReading
            /\ UNCHANGED <<packet, delivered>>
       ELSE /\ message' = packet_type(packet)
            /\ reading' = parse_packet(packet, message', received')
            /\ packet' = packet_after_parse(packet)
            /\ delivered' = delivered + 1
    /\ UNCHANGED <<pipelineVars, clientVars, auth_method, now, calls,
                   waitVars, authVars, rowVars, sanitizeVars, given>>

NextReceive == OnReceive

SpecReceive == InitReceive /\ [][NextReceive]_vars

\* ------------------------------------------------------ _prepare_row
\* bool(v) of a number, a string or a dict: None, 0, '' and {} are false.
IsTrue(v) ==
    /\ v # Nil
    /\ CASE v[1] = "str" -> v[2] # ""
         [] OTHER -> v[2] # 0

\* x or y
Or(x, y) == IF IsTrue(x) THEN x ELSE y

\* safe_json(obj): json.dumps(convert_value(obj)), the string of a dict.
safe_json(obj) == <<"json">> \o obj

\* The keys of the row dict of _prepare_row.
RowSchema == {"ingested_at", "packet_type", "latitude", "battery_level",
              "gps_timestamp", "text_message", "raw_packet"}

\* The row dict before the None values are taken out. at is
\* datetime.now(timezone.utc).isoformat().
row_dict(m, at) ==
    [k \in RowSchema |->
        CASE k = "ingested_at" -> at
          [] k = "packet_type" -> m.packet_type
          [] k = "latitude" -> m.latitude
          [] k = "battery_level" -> m.battery_level
          [] k = "gps_timestamp" -> Or(m.gps_timestamp, m.telemetry_time)
          [] k = "text_message" -> m.text
          [] k = "raw_packet" -> IF IsTrue(m.raw_packet)
                                 THEN safe_json(m.raw_packet) ELSE Nil]

\* convert_value of a value of the row dict: a number or a string is
\* returned as it is.
convert_row_value(v) == v

\* cleaned_row: the keys whose value is not None.
cleaned_row(r) ==
    [k \in {j \in DOMAIN r : r[j] # Nil} |-> convert_row_value(r[k])]

prepare_row(m, at) == cleaned_row(row_dict(m, at))

InitRow ==
    /\ InitProgram /\ InitParts
    /\ packet = NoPacket /\ given = NoPacket
    /\ row_message \in Messages
    /\ payload = NoPayload
    /\ config = ConfigOf(auth_method) /\ client = "created"

\* _flush_batch calls _prepare_row(msg) for a message of the batch.
PrepareRow ==
    /\ row = NoRow
    /\ row' = prepare_row(row_message,
                           <<"str", "2026-01-01T00:00:00+00:00">>)
    /\ UNCHANGED <<pipelineVars, clientVars, auth_method, now, calls,
                   waitVars, authVars, receiverVars, sanitizeVars, row_message>>

NextRow == PrepareRow

SpecRow == InitRow /\ [][NextRow]_vars

\* ----------------------------------------------------- convert_value
\* The depth beyond which convert_value does not descend.
MaxDepth == 10

\* A sanitizer that descends one level further.
too_deep_later(depth) == depth > MaxDepth + 1

\* if depth > 10: return str(v)
too_deep(depth) == depth > MaxDepth

\* convert_value(v, depth) of the streamer's _prepare_row and of the
\* client's append_rows, the same but for the test of __dict__, which
\* both pass for an object: beyond the depth str(v); bytes as v.hex(); a
\* dict or a list (a tuple becomes a list) element by element with
\* depth + 1; an object as str(v); any other value as it is.
RECURSIVE convert_value(_, _, _)
convert_value(g, v, depth) ==
    IF too_deep(depth) THEN Sanitized("str", v, <<>>)
    ELSE CASE g[v].type = "bytes" -> Sanitized("hex", v, <<>>)
           [] g[v].type \in ContainerTypes ->
                Sanitized(g[v].type, v,
                          [i \in 1..Len(g[v].kids) |->
                              convert_value(g, g[v].kids[i], depth + 1)])
           [] g[v].type = "object" -> Sanitized("str", v, <<>>)
           [] OTHER -> Sanitized("scalar", v, <<>>)

InitSanitize ==
    /\ InitProgram /\ InitParts
    /\ packet = NoPacket /\ given = NoPacket
    /\ row_message = NoRowMessage
    /\ payload \in Payloads
    /\ config = ConfigOf(auth_method) /\ client = "created"

\* _prepare_row: convert_value(obj) of safe_json and of cleaned_row.
StreamerSanitize ==
    /\ sanitized = NoValue
    /\ sanitized' = [by |-> "streamer", value |-> convert_value(payload, 1, 0)]
    /\ UNCHANGED <<pipelineVars, clientVars, auth_method, now, calls,
                   waitVars, authVars, receiverVars, rowVars, payload>>

\* append_rows: convert_value(v) of every value of every row.
ClientSanitize ==
    /\ sanitized = NoValue
    /\ sanitized' = [by |-> "client", value |-> convert_value(payload, 1, 0)]
    /\ UNCHANGED <<pipelineVars, clientVars, auth_method, now, calls,
                   waitVars, authVars, receiverVars, rowVars, payload>>

NextSanitize == StreamerSanitize \/ ClientSanitize

SpecSanitize == InitSanitize /\ [][NextSanitize]_vars

\* ===================================================== properties
Succeeded(o) == o \in {"ok", "ok_no_token"}

\* An append_rows call returns or raises in this step.
AppendEnds == ncalls' = ncalls + 1

\* The readings of all batches passed to the streaming client so far.
Flushed == UNION {Range(log[i]) : i \in 1..Len(log)}

RECURSIVE Concat(_)
Concat(ss) == IF ss = <<>> THEN <<>> ELSE Head(ss) \o Concat(Tail(ss))

InAppend == wpc \in {"flushing", "finalflushing"}

\* C1: offset_token goes up by exactly 1 in every successful append_rows
\* call, whatever the number of rows, is unchanged by every failed call,
\* never decreases, and changes in no step other than open_channel and
\* the end of an append_rows call.
C1_OffsetStepsByOne ==
    [][/\ offset_token' >= offset_token
       /\ AppendEnds /\ Succeeded(outcome') => offset_token' = offset_token + 1
       /\ AppendEnds /\ ~Succeeded(outcome') => offset_token' = offset_token
       /\ ~AppendEnds /\ mpc # "discovered" => offset_token' = offset_token
      ]_vars

\* A successful append of a two-row batch, after a failed append, has moved
\* the offset by one.
C1_Witness ==
    /\ outcome = "ok"
    /\ ~inflight.sent
    /\ ncalls = Len(log)
    /\ ncalls >= 2
    /\ Len(log[ncalls]) = 2
    /\ cstats.errors >= 1
    /\ cstats.total_batches = 1
    /\ offset_token = 3

\* C2: after a successful append_rows, continuation_token is the token of
\* the server's response (None when the response carries none) and differs
\* from the continuationToken parameter of that request.
C2_TokenRotates ==
    [][AppendEnds /\ Succeeded(outcome') =>
         /\ outcome' = "ok" => continuation_token' = srv_seq'
         /\ outcome' = "ok_no_token" => continuation_token' = None
         /\ continuation_token' # inflight.continuationToken
      ]_vars

\* Two successful appends in a row: the token has rotated twice since open.
C2_Witness ==
    /\ outcome = "ok"
    /\ cstats.total_batches = 2
    /\ continuation_token = srv_seq
    /\ srv_seq = 3

\* C3: every failed append_rows call (network error, HTTP error status,
\* token acquisition error, unreadable response) leaves offset_token and
\* continuation_token as they were and adds exactly 1 to the client's
\* error counter.
C3_FailedAppendCounted ==
    [][AppendEnds /\ outcome' \in {"network_error", "http_error",
                                   "token_error", "unreadable"} =>
         /\ offset_token' = offset_token
         /\ continuation_token' = continuation_token
         /\ cstats'.errors = cstats.errors + 1
      ]_vars

\* C4: no batch passed to the streaming client is empty, and outside a
\* flush the worker's current batch holds no reading of a batch that has
\* been flushed.
C4_NoEmptyNoHeldBatch ==
    /\ \A i \in 1..Len(log) : log[i] # <<>>
    /\ inflight.sent => inflight.rows # <<>>
    /\ wpc \in {"loop", "get", "check", "final"} =>
           Range(batch) \cap Flushed = {}

\* After a failed and a successful flush the worker holds a new batch.
C4_Witness ==
    /\ wpc = "check"
    /\ batch # <<>>
    /\ Len(log) >= 2
    /\ sstats.errors >= 1
    /\ sstats.batches_sent >= 1

\* C5: when the batch has reached batch_size at the check that follows the
\* dequeue, the worker's next step flushes exactly that batch of batch_size
\* readings, whatever the time since the last flush.
C5_SizeFlushAtOnce ==
    [][wpc = "check" /\ wpc' # "check" /\ Len(batch) >= batch_size =>
         /\ Len(batch) = batch_size
         /\ log' = Append(log, batch)
      ]_vars

\* A full batch on its way before the interval has passed.
C5_Witness ==
    /\ wpc = "flushing"
    /\ inflight.sent
    /\ Len(inflight.rows) = batch_size
    /\ elapsed < FlushTicks

\* C6 as stated: a batch smaller than batch_size is flushed only when it
\* is non-empty and the time since the last flush has reached
\* flush_interval.
C6_SmallBatchOnlyOnTime ==
    [][Len(log') = Len(log) + 1 /\ Len(batch) < batch_size =>
         batch # <<>> /\ elapsed >= FlushTicks
      ]_vars

\* C6 amended: in the worker loop a batch smaller than batch_size is
\* flushed, whole, exactly when it is non-empty and the time since the last
\* flush has reached flush_interval; the only other flush of a smaller
\* batch is the final flush after the loop.
C6_SmallBatchOnTimeOrFinal ==
    [][/\ wpc = "check" /\ wpc' # "check" /\ Len(batch) < batch_size =>
            IF batch # <<>> /\ elapsed >= FlushTicks
            THEN log' = Append(log, batch)
            ELSE log' = log
       /\ Len(log') = Len(log) + 1 /\ Len(batch) < batch_size =>
            \/ wpc = "check" /\ batch # <<>> /\ elapsed >= FlushTicks
            \/ wpc = "final" /\ batch # <<>>
      ]_vars

\* A batch smaller than batch_size on its way from the loop, the interval
\* passed, nothing else queued, and it is the first flush.
C6_Witness ==
    /\ wpc = "flushing"
    /\ inflight.sent
    /\ Len(inflight.rows) < batch_size
    /\ elapsed >= FlushTicks
    /\ queue = <<>>
    /\ log = <<inflight.rows>>
    /\ ~shutdown

\* C7: when the process has ended after a shutdown signal, every reading
\* that was in the queue or in the worker's batch at the signal has been
\* passed to the streaming client.
C7_NoLossAtShutdown == mpc = "exited" => at_signal \subseteq Flushed

\* C8: when the process of a started streamer has ended, the worker has
\* finished its final flush and close_channel was called exactly once.
C8_StopWaitsAndCloses ==
    mpc = "exited" /\ wpc # "unstarted" => wpc = "done" /\ close_calls = 1

\* C9: while the worker is inside an append call the process has not
\* ended and close_channel has not been called.
C9_InFlightAppendCompletes ==
    InAppend => mpc # "exited" /\ close_calls = 0

\* C10: the batches passed to the streaming client, concatenated in call
\* order, list the readings in the order of their put(): 1, 2, 3, ...
C10_AppendOrder ==
    LET all == Concat(log) IN \A i \in 1..Len(all) : all[i] = i

\* Two batches, the first of two readings.
C10_Witness ==
    /\ Len(log) = 2
    /\ Len(log[1]) = 2
    /\ Len(log[2]) = 1
    /\ produced = MaxReadings

\* C11: at most one append call is in flight at any time: the calls begun
\* are at most one more than the calls ended, and while a request is on
\* the wire the worker waits inside its flush holding exactly the rows of
\* that request, so it has dequeued nothing and begun no other flush.
C11_OneAppendInFlight ==
    /\ Len(log) - ncalls \in {0, 1}
    /\ inflight.sent <=> Len(log) - ncalls = 1
    /\ inflight.sent => InAppend /\ batch = inflight.rows

\* A second append on the wire while a reading waits in the queue.
C11_Witness ==
    /\ inflight.sent
    /\ wpc = "flushing"
    /\ Len(log) = 2
    /\ ncalls = 1
    /\ queue # <<>>

\* C12: the readings of a flushed batch, failed or not, are never back on
\* the queue and never in a later batch; the streamer's error counter is
\* the number of failed flushes; the worker leaves its loop only at
\* shutdown, never because a flush failed.
C12_FailedBatchDropped ==
    /\ Range(queue) \cap Flushed = {}
    /\ \A i, j \in 1..Len(log) :
           i < j => Range(log[i]) \cap Range(log[j]) = {}
    /\ sstats.errors = ncalls - sstats.batches_sent
    /\ wpc \in {"final", "finalflushing", "done"} => shutdown \/ ~running

\* A failed flush, then a successful flush of other readings, the worker
\* still in its loop.
C12_Witness ==
    /\ Len(log) = 2
    /\ ncalls = 2
    /\ outcome = "ok"
    /\ sstats.errors = 1
    /\ sstats.batches_sent = 1
    /\ wpc = "loop"
    /\ ~shutdown

\* C13: append_rows with a non-empty batch on a client whose channel has
\* never been opened raises a ValueError, sends no request and leaves
\* offset_token, continuation_token and the row and batch statistics as
\* they were.
C13_UnopenedAppendValueError ==
    [][nopen = 0 /\ AppendEnds /\ outcome' = "not_opened" =>
         /\ raised' = "ValueError"
         /\ req' = req
         /\ ~inflight'.sent
         /\ offset_token' = offset_token
         /\ continuation_token' = continuation_token
         /\ cstats' = cstats
      ]_vars

\* C14: after an open-channel response without continuation token the
\* pipeline runs on and the batches the worker hands to the client reach
\* the server.
C14_NoTokenOpenStillAppends ==
    mpc \notin {"start", "discovered", "failed"} /\ srv_seq = 0 /\ ncalls > 0
        => outcome \in Responses

C16_DiscoverCached ==
    [][ingest_host # None =>
         host_queries' = host_queries /\ ingest_host' = ingest_host
      ]_vars

\* C17: a request that leaves carries the client's bearer token, which is
\* present and whose recorded expiry lies after the time of the request; it
\* is a token fetched from the Auth Provider in this very call, with expiry
\* 3000 s from now, when none was cached or the clock had reached the
\* expiry, and the cached one otherwise.
C17_RequestsCarryValidToken ==
    [][req' # req =>
         /\ req'.bearer = scoped_token'
         /\ req'.bearer # None
         /\ req'.at = now
         /\ req'.expiry = token_expiry'
         /\ now < token_expiry'
         /\ IF scoped_token = None \/
               (token_expiry # None /\ now >= token_expiry)
            THEN /\ scoped_token' = get_scoped_token
                 /\ token_expiry' = now + TokenLifetime
                 /\ auth_method = "jwt" => auth_seq' = auth_seq + 1
            ELSE UNCHANGED tokenVars
      ]_vars

\* An append sent at the instant the first token expires carries the
\* second token.
C17_Witness ==
    /\ req.kind = "append"
    /\ auth_method = "jwt"
    /\ auth_seq = 2
    /\ req.bearer = 2
    /\ req.at = 2 * ClockStep
    /\ req.expiry = req.at + TokenLifetime

\* C18: when the last request was an append that the server rejected as
\* unauthorized, the next append fetches a token before it sends: the
\* expiry is set anew and an exchanged token differs from the rejected one.
C18_AuthFailureForcesRefresh ==
    [][/\ outcome = "unauthorized"
       /\ req.kind = "append"
       /\ ~inflight.sent
       /\ inflight'.sent
       => /\ token_expiry' = now + TokenLifetime
          /\ auth_method = "jwt" => req'.bearer # req.bearer
      ]_vars

\* C19: the kind of the message is the first in the order position, text,
\* telemetry, nodeinfo that the packet matches, by port number, by a port
\* name holding its word or by its payload key, and raw when it matches
\* none.
C19_FirstMatchingKind ==
    message # "none" =>
        LET order == <<"position", "text", "telemetry", "nodeinfo">>
            code == [position |-> 3, text |-> 1, telemetry |-> 67,
                     nodeinfo |-> 4]
            word == [position |-> "POSITION", text |-> "TEXT",
                     telemetry |-> "TELEMETRY", nodeinfo |-> "NODEINFO"]
            key == [position |-> "position", text |-> "text",
                    telemetry |-> "telemetry", nodeinfo |-> "user"]
            matches(k) == \/ packet.portnum.num = code[k]
                          \/ word[k] \in Range(packet.portnum.name)
                          \/ key[k] \in packet.keys
            first == {i \in 1..4 : /\ matches(order[i])
                                   /\ \A j \in 1..(i - 1) : ~matches(order[j])}
        IN  /\ first = {} => message = "raw"
            /\ \A i \in first : message = order[i]

\* A telemetry packet by port number that also holds a user key.
C19_Witness ==
    /\ packet.portnum.num = 67
    /\ packet.keys = {"telemetry", "user"}
    /\ message = "telemetry"

\* C20: a packet with port number 1, 3, 4 or 67 gives a message of the
\* kind that number names, whatever payload keys are present.
C20_PortCodeDecidesKind ==
    message # "none" /\ packet.portnum.num \in {1, 3, 4, 67} =>
        message = CASE packet.portnum.num = 1 -> "text"
                    [] packet.portnum.num = 3 -> "position"
                    [] packet.portnum.num = 4 -> "nodeinfo"
                    [] packet.portnum.num = 67 -> "telemetry"

\* C27: whatever the queue holds, whether or not an append is in flight and
\* however many appends have failed, a producer callback that is due can
\* put its reading on the queue.
C27_PutNeverBlocks ==
    alive /\ receiver = "open" /\ ppc = "idle" /\ produced < MaxReadings =>
        ENABLED OnMessagePut

\* A reading was put on the queue while an append was in flight and after
\* an append had failed.
C27_Witness ==
    queue # <<>> /\ ppc = "count" /\ inflight.sent /\ sstats.errors >= 1

\* No data flows before or after a failed startup.
NoDataFlow ==
    /\ wpc = "unstarted" /\ ~running /\ receiver = "none"
    /\ produced = 0 /\ queue = <<>> /\ batch = <<>>
    /\ ncalls = 0 /\ ~inflight.sent /\ log = <<>>

\* C29: start() gets past host discovery and past channel opening only
\* when the step raised nothing; a startup that failed has ended start()
\* with the worker never started, the receiver never connected and no
\* reading enqueued or appended.
C29_StartupFailureStopsAll ==
    /\ mpc = "discovered" => raised = "" /\ ingest_host # None
    /\ mpc = "opened" => raised = "" /\ nopen = 1
    /\ mpc \in {"start", "discovered", "opened", "failed"} => NoDataFlow

\* Channel opening failed after a discovery that succeeded.
C29_Witness ==
    mpc = "failed" /\ raised # "" /\ ingest_host # None /\ nopen = 1

\* C30: with a PAT configured every token the client holds is the PAT, and
\* no OAuth exchange was ever sent.
C30_PatNoExchange ==
    auth_method = "pat" => auth_seq = 0 /\ scoped_token \in {None, 1}

\* The PAT was fetched again after the first token had expired.
C30_Witness ==
    /\ auth_method = "pat" /\ scoped_token = 1
    /\ token_expiry >= 2 * TokenLifetime

\* C28: a wait_for_commit call that returned raised nothing; it returned
\* True only after a poll begun within the timeout read a committed offset
\* that is at least the expected one, and False only with the timeout
\* elapsed; and while it polls and when it has returned, offset_token and
\* continuation_token are the ones it was called with.
C28_WaitForCommit ==
    wait.call = calls /\ wait.call > 0 =>
        /\ <<offset_token, continuation_token>> = wait.before
        /\ wait.pc = "idle" => raised = "" /\ wait.result # "none"
        /\ wait.result = "True" =>
              /\ wait.polled.kind # "text"
              /\ committed_offset(wait.polled) >= wait.expected
              /\ wait.polled_at - wait.start < wait.timeout
        /\ wait.result = "False" => now - wait.start >= wait.timeout

\* wait_for_commit returned True after it had swallowed an error of a poll.
C28_Witness ==
    /\ wait.call = calls /\ wait.result = "True" /\ wait.swallowed >= 1
    /\ wait.expected >= 1

\* The packet {} and the packets that hold nothing but an empty decoded.
IsEmpty(p) ==
    /\ p.from = None /\ p.decoded = "dict"
    /\ p.portnum = [num |-> -1, name |-> <<>>] /\ p.keys = {}

\* C21: after _on_receive has processed an empty packet or a packet that
\* cannot be parsed, no message was made, nothing was appended to the
\* queue or passed to the callback, and no error was counted.
C21_EmptyOrUnparsableDropped ==
    received > 0 /\ (IsEmpty(given) \/ parse_raises(given)) =>
        message = "none" /\ delivered = 0 /\ sstats.errors = 0

\* C22: a position message made of a position without a floating
\* coordinate holds the fixed-point coordinate divided by 1e7, and a
\* floating coordinate that is present is the one of the message.
C22_FixedPointCoordinates ==
    message = "position" /\ "position" \in given.keys =>
        /\ given.position.latitude # Nil =>
               reading.latitude = given.position.latitude
        /\ given.position.longitude # Nil =>
               reading.longitude = given.position.longitude
        /\ given.position.latitude = Nil /\ given.position.latitudeI # Nil =>
               reading.latitude =
                   Divide(given.position.latitudeI, CoordinateScale)
        /\ given.position.longitude = Nil /\ given.position.longitudeI # Nil =>
               reading.longitude =
                   Divide(given.position.longitudeI, CoordinateScale)

\* C23: a telemetry message holds the temperature of the packet, and
\* beside it temperature_f with 5 * temperature_f = 9 * t + 160 when the
\* packet has a temperature t and no temperature_f when it has none.
C23_Fahrenheit ==
    message = "telemetry" =>
        /\ reading.temperature = given.temperature
        /\ given.temperature = Nil => reading.temperature_f = Nil
        /\ given.temperature # Nil =>
              /\ reading.temperature_f # Nil
              /\ 5 * reading.temperature_f[1] * given.temperature[2] =
                    (9 * given.temperature[1] + 160 * given.temperature[2])
                        * reading.temperature_f[2]

\* A telemetry message was made of a packet with a temperature of 0.
C23_Witness ==
    /\ message = "telemetry" /\ given.temperature = <<0, 1>>
    /\ reading.temperature_f[1] = 32 * reading.temperature_f[2]

RowKey(k) == IF k = "text" THEN "text_message" ELSE k

\* C25: a row built by _prepare_row has ingested_at, has no key outside
\* the row schema, has no None value, has no key for a field the message
\* does not have, and has for every field the message has the value of the
\* message, text under text_message.
C25_RowCopiesPresentFields ==
    row # NoRow =>
        /\ "ingested_at" \in DOMAIN row
        /\ DOMAIN row \subseteq RowSchema
        /\ \A k \in DOMAIN row : row[k] # Nil
        /\ \A k \in {"packet_type", "latitude", "battery_level", "text",
                      "gps_timestamp"} :
              IF row_message[k] # Nil
              THEN RowKey(k) \in DOMAIN row /\
                   row[RowKey(k)] = row_message[k]
              ELSE k = "gps_timestamp" \/ RowKey(k) \notin DOMAIN row

\* r is the sanitized form of node v of payload g met at depth d: beyond
\* depth 10 the string of v with nothing below it; up to depth 10 a hex
\* string for bytes, a string for an object, the value itself for a
\* scalar, and for a dict or list a container of the same type whose
\* elements are the sanitized forms of its elements, one for one.
RECURSIVE IsSanitized(_, _, _, _)
IsSanitized(g, v, r, d) ==
    /\ r.of = v
    /\ IF d > 10
       THEN r.type = "str" /\ r.items = <<>>
       ELSE CASE g[v].type = "bytes" -> r.type = "hex" /\ r.items = <<>>
              [] g[v].type = "object" -> r.type = "str" /\ r.items = <<>>
              [] g[v].type = "scalar" -> r.type = "scalar" /\ r.items = <<>>
              [] OTHER ->
                   /\ r.type = g[v].type
                   /\ Len(r.items) = Len(g[v].kids)
                   /\ \A i \in 1..Len(r.items) :
                         IsSanitized(g, g[v].kids[i], r.items[i], d + 1)

\* The levels of containers in a sanitized value.
RECURSIVE Height(_)
Height(r) ==
    IF r.items = <<>> THEN 0
    ELSE 1 + Height(r.items[Len(r.items)])

\* C26: convert_value returns for every payload, cyclic ones included, a
\* value of at most 11 levels in which bytes are hex strings, dicts and
\* lists are sanitized element by element and every value met more than 10
\* levels deep is its string.
C26_SanitizerTerminates ==
    sanitized # NoValue =>
        /\ Height(sanitized.value) <= 11
        /\ IsSanitized(payload, 1, sanitized.value, 0)

\* A dict that holds itself was sanitized down to the string at level 11.
C26_Witness ==
    /\ sanitized # NoValue
    /\ payload = Cycle(1, "dict", TRUE)
    /\ Height(sanitized.value) = 11

\* No request has left the process.
NoRequestSent ==
    req = NoRequest /\ host_queries = 0 /\ auth_seq = 0 /\ nopen = 0

\* The configuration names no method: neither a non-empty pat nor a
\* non-empty private_key_file.
NoCredential(c) == ~NonEmpty(c.pat) /\ ~NonEmpty(c.private_key_file)

\* C31 as stated: the construction with a configuration without a
\* credential ends with ValueError, and no request is sent.
C31_NoCredentialValueError ==
    client # "none" /\ NoCredential(config) =>
        client = "ValueError" /\ NoRequestSent

\* C31, amended: the construction with a configuration without a
\* credential never yields a client and no request is sent; it ends with
\* ValueError when the configuration has account and user, and with the
\* KeyError of the missing key when it has not.
C31_NoCredentialNoClient ==
    client # "none" /\ NoCredential(config) =>
        /\ client = IF config.account /\ config.user
                    THEN "ValueError" ELSE "KeyError"
        /\ NoRequestSent

\* The construction failed for a configuration with account and user and
\* an empty pat.
C31_Witness ==
    /\ client = "ValueError" /\ config.account /\ config.user
    /\ config.pat = "" /\ config.private_key_file = "absent"

\* C32: once the worker thread has been started, a step that writes
\* continuation_token or offset_token is the end of an append call made by
\* the worker thread, and it leaves alone everything the producer
\* callback, the signal handler and stop() write: they never write the
\* session.
C32_OnlyWorkerWritesSession ==
    [][wpc # "unstarted" /\
       <<continuation_token, offset_token>>' #
           <<continuation_token, offset_token>>
       => /\ InAppend /\ ~InAppend' /\ AppendEnds
          /\ UNCHANGED <<mpc, running, shutdown, receiver, close_calls,
                         ppc, produced, queue>>]_vars

\* The worker has written the session while stop() was waiting for it, and
\* stop() has returned after close_channel.
C32_Witness ==
    /\ mpc = "exited" /\ close_calls = 1 /\ wpc = "done"
    /\ cstats.total_batches >= 1 /\ shutdown /\ produced >= 1

\* C33: a successful append_rows call adds 1 to the client's total_batches
\* and the size of its batch to total_rows_sent, a failed call and every
\* other step change neither, so that the two counters are the number and
\* the total size of the successful appends; and the streamer's
\* batches_sent and messages_sent are equal to them.
C33_CountersCountSuccesses ==
    [][/\ IF AppendEnds /\ Succeeded(outcome')
          THEN /\ inflight.sent /\ Len(inflight.rows) >= 1
               /\ cstats'.total_batches = cstats.total_batches + 1
               /\ cstats'.total_rows_sent =
                      cstats.total_rows_sent + Len(inflight.rows)
          ELSE /\ cstats'.total_batches = cstats.total_batches
               /\ cstats'.total_rows_sent = cstats.total_rows_sent
       /\ sstats'.batches_sent = cstats'.total_batches
       /\ sstats'.messages_sent = cstats'.total_rows_sent]_vars

\* An append of two readings succeeded and an append of one failed.
C33_Witness ==
    /\ cstats.total_batches = 1 /\ cstats.total_rows_sent = 2
    /\ sstats.batches_sent = 1 /\ sstats.messages_sent = 2
    /\ ncalls = 2 /\ ~inflight.sent /\ ~Succeeded(outcome)

\* C34: the worker's current batch never holds more than batch_size
\* readings, and every batch handed to the streaming client holds between
\* 1 and batch_size readings.
C34_BatchWithinSize ==
    /\ Len(batch) <= batch_size
    /\ \A i \in 1..Len(log) : Len(log[i]) \in 1..batch_size

\* A full batch and a smaller one were handed over, one of them after a
\* failed flush, with shutdown signalled.
C34_Witness ==
    /\ Len(log) = 2 /\ Len(log[1]) = batch_size /\ Len(log[2]) = 1
    /\ sstats.errors >= 1 /\ shutdown /\ wpc = "done"

\* The readings the worker has taken from the queue.
Dequeued == (1..produced) \ Range(queue)

\* C35: a reading is in one batch handed to the streaming client at most;
\* a reading taken from the queue is in such a batch or still in the
\* current batch; and when the worker thread has run to its end, every
\* reading it took from the queue is in exactly one batch handed over.
C35_DequeuedInOneBatch ==
    LET handed == Concat(log) IN
    /\ Cardinality(Range(handed)) = Len(handed)
    /\ Dequeued = Range(handed) \cup Range(batch)
    /\ wpc = "done" => Dequeued = Range(handed)

\* The worker has run to its end after three readings in two batches, one
\* of which failed, and after a signal.
C35_Witness ==
    /\ wpc = "done" /\ Len(log) = 2 /\ Dequeued = 1..MaxReadings
    /\ sstats.errors = 1 /\ sstats.messages_sent >= 1 /\ shutdown

\* C36 as stated: once open_channel has returned, offset_token is the
\* offset that open_channel set plus the client's total_batches.
C36_OffsetIsOpenPlusBatches ==
    open_response.resp \in {"ok", "ok_no_token"} =>
        offset_token = (IF open_response.committed = -1 THEN 0
                        ELSE open_response.committed) + cstats.total_batches

\* C36, amended: an open_channel call that returns sets offset_token to
\* the server's committed offset (0 when it reports none), and in every
\* other step offset_token and total_batches move together, so that
\* offset_token is the offset set by the last open_channel plus the number
\* of successful appends since that open; total_batches, which counts from
\* the construction of the client and is not reset by open_channel, is
\* that number only while the channel has been opened once.
C36_OffsetIsOpenPlusAppendsSince ==
    [][IF nopen' = nopen + 1 /\ raised' = ""
       THEN /\ offset_token' = IF open_response'.committed = -1 THEN 0
                               ELSE open_response'.committed
            /\ cstats' = cstats
       ELSE /\ offset_token' - cstats'.total_batches =
                   offset_token - cstats.total_batches
            /\ nopen <= 1 /\ open_response.resp \in {"ok", "ok_no_token"}
                   => C36_OffsetIsOpenPlusBatches'
      ]_vars

\* A channel opened at offset 2, one successful append, and the channel
\* opened again at offset 0.
C36_Witness ==
    /\ nopen = 2 /\ raised = "" /\ req.kind = "open"
    /\ cstats.total_batches = 1
    /\ open_response.committed = 0 /\ offset_token = 0

\* C37: once open_channel has stored a continuation token, and with the
\* ingest host still known, the client holds a token after every append,
\* successful or failed, and no append is rejected with "Channel not
\* opened".
C37_TokenStaysAfterOpen ==
    [][AppendEnds /\ open_response.resp = "ok" /\ ingest_host # None =>
         continuation_token' # None /\ outcome' # "not_opened"]_vars

\* C39: in every state the streamer's messages_sent is at most its
\* messages_received.
C39_SentAtMostReceived == sstats.messages_sent <= sstats.messages_received

\* The callback is not running and will not run again: the receiver is
\* closed or the device has delivered its last packet.
ProducerStopped ==
    ppc = "idle" /\ (receiver = "closed" \/ produced = MaxReadings)

\* The worker thread has returned with nothing left behind: the queue is
\* empty and every reading of its batch has been handed to a flush.
WorkerEndedClean ==
    wpc = "done" /\ queue = <<>> /\ Range(batch) \subseteq Flushed

\* C38: from a state in which shutdown has been signalled and the producer
\* has stopped, a started worker thread reaches its end, with the queue
\* empty and nothing left in its batch.
C38_WorkerEndsDrained ==
    (shutdown /\ ProducerStopped /\ wpc # "unstarted") ~> WorkerEndedClean

====
